---- MODULE Spec2Model ----
(***************************************************************************)
(* Model of mshll/ralphy: an in-memory task store guarded by a             *)
(* sync.RWMutex and the HTTP handlers in front of it.  src/main.go holds   *)
(* two implementations: the counter-based store routed by Server.ServeHTTP *)
(* (lines 1-215) and the store with Create(task Task), whose ids are       *)
(* derived from the clock, routed by a ServeMux (lines 504-696).           *)
(***************************************************************************)
EXTENDS Integers, Sequences, FiniteSets, Bags, TLC

(* ------------------------------ bounds -------------------------------- *)
\* goroutines that are in a store call or a request at once
NumProcs == 2
\* Create calls issued in one behaviour (caps nextID)
MaxCreates == 2
\* largest value the clock reaches
MaxClock == 2
\* requests issued in one behaviour
MaxCalls == 3
\* store calls issued in one behaviour by callers of the store
MaxStoreCalls == 4

(* ------------------------------ strings ------------------------------- *)
\* Strings the code takes apart (paths, ids) are sequences of characters.
Digits == <<"0", "1", "2", "3", "4", "5", "6", "7", "8", "9">>

RECURSIVE Itoa(_)
\* fmt's %d of a non-negative integer
Itoa(n) == IF n < 10 THEN <<Digits[n + 1]>>
           ELSE Itoa(n \div 10) \o <<Digits[(n % 10) + 1]>>

HasPrefix(s, prefix) ==
    /\ Len(s) >= Len(prefix)
    /\ SubSeq(s, 1, Len(prefix)) = prefix

TrimPrefix(s, prefix) ==
    IF HasPrefix(s, prefix) THEN SubSeq(s, Len(prefix) + 1, Len(s)) ELSE s

TaskIDPrefix == <<"t", "a", "s", "k", "-">>
\* fmt.Sprintf("task-%d", n)
SprintfTaskID(n) == TaskIDPrefix \o Itoa(n)

(* ------------------------------- tasks -------------------------------- *)
\* The zero time.Time is 0; time.Now() is a clock value >= 1.
ZeroTime == 0

\* The zero value of Task, which a failed map lookup yields.
ZeroTask == [id |-> <<>>, title |-> "", description |-> "",
             completed |-> FALSE, created_at |-> ZeroTime]

NewTask(id, title, description, now) ==
    [id |-> id, title |-> title, description |-> description,
     completed |-> FALSE, created_at |-> now]

\* m[id] = t
MapPut(m, id, t) ==
    [k \in (DOMAIN m) \cup {id} |-> IF k = id THEN t ELSE m[k]]

\* a delete that removes nothing
MapKeep(m, id) == m

\* delete(m, id)
MapDelete(m, id) == [k \in (DOMAIN m) \ {id} |-> m[k]]

\* v, ok := m[id]
MapGet(m, id) == IF id \in DOMAIN m THEN m[id] ELSE ZeroTask

EmptyMap == [k \in {} |-> ZeroTask]

RECURSIVE Orders(_)
\* every order in which a range over the set can visit it
Orders(S) == IF S = {} THEN {<<>>}
             ELSE UNION {{<<x>> \o o : o \in Orders(S \ {x})} : x \in S}

\* slices that may stop one entry short of the map
PartialSlices(m) ==
    {[i \in 1..Len(o) |-> m[o[i]]] : o \in Orders(DOMAIN m)}
    \cup {[i \in 1..(Len(o) - 1) |-> m[o[i]]] : o \in Orders(DOMAIN m) \ {<<>>}}

\* make([]Task, len, cap): a slice of len zero tasks that is not nil
MakeSlice(len, cap) == [isNil |-> FALSE, elems |-> [i \in 1..len |-> ZeroTask]]

\* The slices GetAll can build: one entry per key, in an unspecified order.
GetAllSlices(m) == {[i \in 1..Len(o) |-> m[o[i]]] : o \in Orders(DOMAIN m)}

(* ------------------------------ requests ------------------------------ *)
\* A request body: valid is whether json.Decode accepts it; the has* flags say
\* which members the JSON object carries.
Body(valid, hasTitle, title, hasDescription, description, hasCompleted, completed) ==
    [valid |-> valid, hasTitle |-> hasTitle, title |-> title,
     hasDescription |-> hasDescription, description |-> description,
     hasCompleted |-> hasCompleted, completed |-> completed]

NoBody == Body(FALSE, FALSE, "", FALSE, "", FALSE, FALSE)

NoReq == [method |-> "", path |-> <<>>, body |-> NoBody]

\* The body of a response: a task, a list of tasks, an error object or nothing.
NoResp == [status |-> 0, ctype |-> "", kind |-> "none", task |-> ZeroTask,
           list |-> <<>>, error |-> ""]

(* ------------------------------- state -------------------------------- *)
VARIABLES
    tasks,      \* TaskStore.tasks
    nextID,     \* TaskStore.nextID
    mu,         \* TaskStore.mu: how many goroutines hold it for writing, for reading
    clock,      \* the value time.Now() last returned
    calls,      \* the goroutines in a call: a bag of frames (position, arguments, locals)
    created,    \* history: the ids Create returned, in the order of the returns
    deleted,    \* history: the ids for which Delete returned true
    live,       \* history: the arguments of each Create whose id no Delete was called on since
    delCalls,   \* history: per id, Delete calls that come after its Create (2: two or more)
    ncreate,    \* history: Create calls made
    ncalls      \* history: store calls and requests made

vars == <<tasks, nextID, mu, clock, calls, created, deleted, live, delCalls, ncreate,
          ncalls>>

Range(s) == {s[i] : i \in 1..Len(s)}

Count(s, x) == Cardinality({i \in 1..Len(s) : s[i] = x})

\* The ids a caller may ask for: every id the counter can issue, and one it cannot.
UnknownID == <<"n", "o">>
ArgIDs == {SprintfTaskID(n) : n \in 1..MaxCreates} \cup {UnknownID}

\* A goroutine's frame: the operation it is in and where (pc), who called it
\* (via: "direct", or the handler of request req), its arguments and locals
\* (listNil: the slice list is still the nil slice), and what the history said
\* as the call was made (g_).
Frame(op, via, req, title, description, id) ==
    [pc |-> "", op |-> op, via |-> via, req |-> req, title |-> title,
     description |-> description, id |-> id, task |-> ZeroTask, ok |-> FALSE,
     list |-> <<>>, listNil |-> TRUE, resp |-> NoResp,
     g_live |-> FALSE, g_rank |-> 0, g_ndel |-> 0, g_ncre |-> 0]

NoArgs == [k \in {} |-> [title |-> "", description |-> ""]]

InFlight == BagToSet(calls)

\* The goroutine with frame c moves on with frame d.
Becomes(c, d) == calls' = (calls (-) SetToBag({c})) (+) SetToBag({d})

At(c, pc) == c \in InFlight /\ c.pc = pc

Init ==
    /\ tasks = EmptyMap
    /\ nextID = 1
    /\ mu = [w |-> 0, r |-> 0]
    /\ clock = 1
    /\ calls = EmptyBag
    /\ created = <<>>
    /\ deleted = <<>>
    /\ live = NoArgs
    /\ delCalls = [id \in ArgIDs |-> 0]
    /\ ncreate = 0
    /\ ncalls = 0

(* ---------------------------- sync.RWMutex ---------------------------- *)
\* a Lock that only waits for the writer: it may be taken among readers
NoWriter == mu.w = 0

\* a Lock that only waits for the readers: two writers may hold it
NoReaders == mu.r = 0

\* an RLock that never waits
AnyTime == TRUE

\* Lock returns once no goroutine holds the mutex.
CanLock == mu.w = 0 /\ mu.r = 0

\* a read lock that one goroutine holds at a time, as a plain Mutex
OneAtATime == mu.w = 0 /\ mu.r = 0

\* RLock returns once no goroutine holds the mutex for writing.
CanRLock == mu.w = 0

\* time.Now(): the clock has advanced since the last reading, or it has not.
NowValues == {t \in {clock, clock + 1} : t <= MaxClock}

(* ----------------------------- responses ------------------------------ *)
\* Server.jsonResponse: the Content-Type header, the status, the encoded data.
jsonResponse(status, kind, task, list, error) ==
    [status |-> status, ctype |-> "application/json", kind |-> kind,
     task |-> task, list |-> list, error |-> error]

jsonError(status, message) == jsonResponse(status, "error", ZeroTask, <<>>, message)

notFound == jsonError(404, "not found")

methodNotAllowed == jsonError(405, "method not allowed")

\* w.WriteHeader(status) with nothing written after it
HeaderOnly(status, ctype) ==
    [status |-> status, ctype |-> ctype, kind |-> "none", task |-> ZeroTask,
     list |-> <<>>, error |-> ""]

\* Server.listTasks, after GetAll has returned list
listTasksResponse(list) == jsonResponse(200, "list", ZeroTask, list, "")

\* Server.createTask, after Create has returned task
createTaskResponse(task) == jsonResponse(201, "task", task, <<>>, "")

\* Server.getTask, after Get has returned (task, ok)
getTaskResponse(task, ok) ==
    IF ~ok THEN jsonError(404, "task not found")
    ELSE jsonResponse(200, "task", task, <<>>, "")

\* a deleteTask that answers 204 whatever Delete returned
AlwaysNoContent(ok) == HeaderOnly(204, "")

\* Server.deleteTask, after Delete has returned ok
deleteTaskResponse(ok) ==
    IF ~ok THEN jsonError(404, "task not found")
    ELSE HeaderOnly(204, "")

\* http.Error(w, body, status): it replaces the Content-Type header.
httpError(status, body) ==
    [status |-> status, ctype |-> "text/plain; charset=utf-8", kind |-> "error",
     task |-> ZeroTask, list |-> <<>>, error |-> body]

\* http.NotFound, the mux's answer to a path no pattern matches: the body is the
\* text "404 page not found", not JSON.
muxNotFound == [httpError(404, "404 page not found") EXCEPT !.kind = "text"]

\* json.NewEncoder(w).Encode(data) under the header handleTasks or
\* handleTaskByID has set, after WriteHeader(status) or with the implicit 200.
muxEncode(status, kind, task, list) ==
    [status |-> status, ctype |-> "application/json", kind |-> kind,
     task |-> task, list |-> list, error |-> ""]

\* The ServeMux variant's listTasks, createTask, getTask and deleteTask, after
\* the store operation has returned.
MuxResponseOf(f) ==
    CASE f.op = "Create" -> muxEncode(201, "task", f.task, <<>>)
      [] f.op = "Get"    -> IF ~f.ok THEN httpError(404, "task not found")
                            ELSE muxEncode(200, "task", f.task, <<>>)
      [] f.op = "GetAll" -> muxEncode(200, "list", ZeroTask, f.list)
      [] f.op = "Delete" -> IF ~f.ok THEN httpError(404, "task not found")
                            ELSE HeaderOnly(204, "application/json")

\* What the handler that called the store operation writes once it has returned.
ResponseOf(f) ==
    IF f.via = "mux" THEN MuxResponseOf(f) ELSE
    CASE f.op = "Create" -> createTaskResponse(f.task)
      [] f.op = "Get"    -> getTaskResponse(f.task, f.ok)
      [] f.op = "GetAll" -> listTasksResponse(f.list)
      [] f.op = "Delete" -> deleteTaskResponse(f.ok)

\* The store operation returns: a direct caller is done, a handler writes its
\* response.
Return(c) ==
    IF c.via = "direct"
    THEN calls' = calls (-) SetToBag({c})
    ELSE Becomes(c, [c EXCEPT !.pc = "h_ret", !.resp = ResponseOf(c)])

(* ------------------------- history at the call ------------------------ *)
Known(id) == id \in Range(created)

\* Delete calls on id that wait for the lock (2: two or more)
PendingDeletes(id) ==
    LET S == {d \in InFlight : d.op = "Delete" /\ d.id = id /\ d.pc = "d_lock"} IN
    IF S = {} THEN 0
    ELSE IF \E d \in S : S = {d} /\ CopiesIn(d, calls) = 1 THEN 1
    ELSE 2

\* The history as a Create returns task: the Deletes that wait for the lock
\* were called on an id that did not exist yet, and come after the Create.
Returned(c) ==
    /\ created' = Append(created, c.task.id)
    /\ delCalls' = [delCalls EXCEPT ![c.task.id] = PendingDeletes(c.task.id)]
    /\ live' = IF PendingDeletes(c.task.id) = 0
               THEN MapPut(live, c.task.id, [title |-> c.title, description |-> c.description])
               ELSE MapDelete(live, c.task.id)

\* The frame of a call, with what the history says as the call is made.
Called(f) ==
    [f EXCEPT !.g_live = f.id \in DOMAIN live,
              !.g_rank = IF f.op = "Delete" /\ Known(f.id)
                         THEN IF delCalls[f.id] = 0 THEN 1 ELSE 2
                         ELSE 0,
              !.g_ndel = Len(deleted),
              !.g_ncre = IF f.op = "Create" THEN Len(created) ELSE 0]

\* A goroutine calls a store operation; first is where the operation starts.
Call(f, first) ==
    /\ BagCardinality(calls) < NumProcs
    /\ ncalls' = ncalls + 1
    /\ calls' = calls (+) SetToBag({[Called(f) EXCEPT !.pc = first]})
    /\ delCalls' = IF f.op = "Delete" /\ Known(f.id)
                   THEN [delCalls EXCEPT ![f.id] = IF @ = 0 THEN 1 ELSE 2]
                   ELSE delCalls
    /\ live' = IF f.op = "Delete"
               THEN [k \in (DOMAIN live) \ {f.id} |-> live[k]]
               ELSE live
    /\ ncreate' = IF f.op = "Create" THEN ncreate + 1 ELSE ncreate
    /\ UNCHANGED <<tasks, nextID, mu, clock, created, deleted>>

(* --------------------------- TaskStore.Create ------------------------- *)
\* s.mu.Lock()
CreateLock(c) ==
    /\ At(c, "c_lock")
    /\ CanLock
    /\ mu' = [mu EXCEPT !.w = @ + 1]
    /\ Becomes(c, [c EXCEPT !.pc = "c_id"])
    /\ UNCHANGED <<tasks, nextID, clock, created, deleted, live, delCalls, ncreate, ncalls>>

\* a Create that numbers the task by the size of the map
CreateIDFromLen(c) ==
    /\ At(c, "c_id")
    /\ Becomes(c, [c EXCEPT !.pc = "c_inc",
                            !.id = SprintfTaskID(Cardinality(DOMAIN tasks) + 1)])
    /\ UNCHANGED <<tasks, nextID, mu, clock, created, deleted, live, delCalls, ncreate,
                   ncalls>>

\* id := fmt.Sprintf("task-%d", s.nextID)
CreateID(c) ==
    /\ At(c, "c_id")
    /\ Becomes(c, [c EXCEPT !.pc = "c_inc", !.id = SprintfTaskID(nextID)])
    /\ UNCHANGED <<tasks, nextID, mu, clock, created, deleted, live, delCalls, ncreate,
                   ncalls>>

\* a Create that leaves the counter as it is
CreateKeepID(c) ==
    /\ At(c, "c_inc")
    /\ Becomes(c, [c EXCEPT !.pc = "c_put"])
    /\ UNCHANGED <<tasks, nextID, mu, clock, created, deleted, live, delCalls, ncreate,
                   ncalls>>

\* s.nextID++
CreateInc(c) ==
    /\ At(c, "c_inc")
    /\ nextID' = nextID + 1
    /\ Becomes(c, [c EXCEPT !.pc = "c_put"])
    /\ UNCHANGED <<tasks, mu, clock, created, deleted, live, delCalls, ncreate, ncalls>>

\* a record that is stored without its id
CreateTaskBlankID(f, now) == NewTask(ZeroTask.id, f.title, f.description, now)

\* a record that drops the description
CreateTaskNoDescription(f, now) == NewTask(f.id, f.title, "", now)

\* The record Create builds from its arguments, its id and the time.
CreateTask(f, now) == NewTask(f.id, f.title, f.description, now)

\* task := Task{...}; s.tasks[id] = task
CreatePut(c) ==
    /\ At(c, "c_put")
    /\ \E now \in NowValues :
        /\ clock' = now
        /\ tasks' = MapPut(tasks, c.id, CreateTask(c, now))
        /\ Becomes(c, [c EXCEPT !.pc = "c_ret", !.task = CreateTask(c, now)])
    /\ UNCHANGED <<nextID, mu, created, deleted, live, delCalls, ncreate, ncalls>>

\* return task, and the deferred s.mu.Unlock()
CreateReturn(c) ==
    /\ At(c, "c_ret")
    /\ mu' = [mu EXCEPT !.w = @ - 1]
    /\ Returned(c)
    /\ Return(c)
    /\ UNCHANGED <<tasks, nextID, clock, deleted, ncreate, ncalls>>

(* ---------------------------- TaskStore.Get --------------------------- *)
\* s.mu.RLock()
GetRLock(c) ==
    /\ At(c, "g_rlock")
    /\ CanRLock
    /\ mu' = [mu EXCEPT !.r = @ + 1]
    /\ Becomes(c, [c EXCEPT !.pc = "g_read"])
    /\ UNCHANGED <<tasks, nextID, clock, created, deleted, live, delCalls, ncreate, ncalls>>

\* task, ok := s.tasks[id]
GetRead(c) ==
    /\ At(c, "g_read")
    /\ Becomes(c, [c EXCEPT !.pc = "g_ret", !.task = MapGet(tasks, c.id),
                            !.ok = c.id \in DOMAIN tasks])
    /\ UNCHANGED <<tasks, nextID, mu, clock, created, deleted, live, delCalls, ncreate,
                   ncalls>>

\* return task, ok, and the deferred s.mu.RUnlock()
GetReturn(c) ==
    /\ At(c, "g_ret")
    /\ mu' = [mu EXCEPT !.r = @ - 1]
    /\ Return(c)
    /\ UNCHANGED <<tasks, nextID, clock, created, deleted, live, delCalls, ncreate, ncalls>>

(* --------------------------- TaskStore.GetAll ------------------------- *)
\* s.mu.RLock()
GetAllRLock(c) ==
    /\ At(c, "a_rlock")
    /\ CanRLock
    /\ mu' = [mu EXCEPT !.r = @ + 1]
    /\ Becomes(c, [c EXCEPT !.pc = "a_read"])
    /\ UNCHANGED <<tasks, nextID, clock, created, deleted, live, delCalls, ncreate, ncalls>>

\* tasks := make([]Task, 0, len(s.tasks)) and the range over s.tasks
GetAllRead(c) ==
    /\ At(c, "a_read")
    /\ \E list \in GetAllSlices(tasks) :
        LET made == MakeSlice(0, Cardinality(DOMAIN tasks)) IN
        Becomes(c, [c EXCEPT !.pc = "a_ret", !.list = made.elems \o list,
                                !.listNil = made.isNil])
    /\ UNCHANGED <<tasks, nextID, mu, clock, created, deleted, live, delCalls, ncreate,
                   ncalls>>

\* return tasks, and the deferred s.mu.RUnlock()
GetAllReturn(c) ==
    /\ At(c, "a_ret")
    /\ mu' = [mu EXCEPT !.r = @ - 1]
    /\ Return(c)
    /\ UNCHANGED <<tasks, nextID, clock, created, deleted, live, delCalls, ncreate, ncalls>>

(* --------------------------- TaskStore.Delete ------------------------- *)
\* a Delete that goes on without waiting for the lock
DeleteLockNoWait(c) ==
    /\ At(c, "d_lock")
    /\ mu' = [mu EXCEPT !.w = @ + 1]
    /\ Becomes(c, [c EXCEPT !.pc = "d_chk"])
    /\ UNCHANGED <<tasks, nextID, clock, created, deleted, live, delCalls, ncreate, ncalls>>

\* s.mu.Lock()
DeleteLock(c) ==
    /\ At(c, "d_lock")
    /\ CanLock
    /\ mu' = [mu EXCEPT !.w = @ + 1]
    /\ Becomes(c, [c EXCEPT !.pc = "d_chk"])
    /\ UNCHANGED <<tasks, nextID, clock, created, deleted, live, delCalls, ncreate, ncalls>>

\* a Delete that skips the check: it deletes and reports true for any id
DeleteUnchecked(c) ==
    /\ At(c, "d_chk")
    /\ Becomes(c, [c EXCEPT !.pc = "d_del", !.ok = TRUE])
    /\ UNCHANGED <<tasks, nextID, mu, clock, created, deleted, live, delCalls, ncreate,
                   ncalls>>

\* if _, ok := s.tasks[id]; !ok { return false }
DeleteCheck(c) ==
    /\ At(c, "d_chk")
    /\ Becomes(c, [c EXCEPT !.pc = IF c.id \in DOMAIN tasks THEN "d_del" ELSE "d_ret",
                            !.ok = c.id \in DOMAIN tasks])
    /\ UNCHANGED <<tasks, nextID, mu, clock, created, deleted, live, delCalls, ncreate,
                   ncalls>>

\* delete(s.tasks, id)
DeleteRemove(c) ==
    /\ At(c, "d_del")
    /\ tasks' = MapDelete(tasks, c.id)
    /\ Becomes(c, [c EXCEPT !.pc = "d_ret"])
    /\ UNCHANGED <<nextID, mu, clock, created, deleted, live, delCalls, ncreate, ncalls>>

\* a Delete whose return for an id that is not stored keeps the lock
DeleteReturnKeepsLock(c) ==
    /\ At(c, "d_ret")
    /\ mu' = IF c.ok THEN [mu EXCEPT !.w = @ - 1] ELSE mu
    /\ deleted' = IF c.ok THEN Append(deleted, c.id) ELSE deleted
    /\ Return(c)
    /\ UNCHANGED <<tasks, nextID, clock, created, live, delCalls, ncreate, ncalls>>

\* return true or false, and the deferred s.mu.Unlock()
DeleteReturn(c) ==
    /\ At(c, "d_ret")
    /\ mu' = [mu EXCEPT !.w = @ - 1]
    /\ deleted' = IF c.ok THEN Append(deleted, c.id) ELSE deleted
    /\ Return(c)
    /\ UNCHANGED <<tasks, nextID, clock, created, live, delCalls, ncreate, ncalls>>

\* One step of a Create that is under way.
CreateStep ==
    \/ \E c \in InFlight : CreateLock(c)
    \/ \E c \in InFlight : CreateID(c)
    \/ \E c \in InFlight : CreateInc(c)
    \/ \E c \in InFlight : CreatePut(c)
    \/ \E c \in InFlight : CreateReturn(c)

\* One step of a Get, a GetAll or a Delete that is under way.
StoreStep ==
    \/ \E c \in InFlight : GetRLock(c)
    \/ \E c \in InFlight : GetRead(c)
    \/ \E c \in InFlight : GetReturn(c)
    \/ \E c \in InFlight : GetAllRLock(c)
    \/ \E c \in InFlight : GetAllRead(c)
    \/ \E c \in InFlight : GetAllReturn(c)
    \/ \E c \in InFlight : DeleteLock(c)
    \/ \E c \in InFlight : DeleteCheck(c)
    \/ \E c \in InFlight : DeleteRemove(c)
    \/ \E c \in InFlight : DeleteReturn(c)

(* ------------------- callers of the store (as the tests) -------------- *)
\* The (title, description) pairs callers pass: the store takes any strings.
CreateArgs == {<<"A", "">>, <<"B", "D">>, <<"", "D">>}

\* store.Create(title, description)
CallCreate ==
    /\ ncalls < MaxStoreCalls
    /\ ncreate < MaxCreates
    /\ \E a \in CreateArgs :
        Call(Frame("Create", "direct", NoReq, a[1], a[2], <<>>), "c_lock")

\* store.Get(id)
CallGet ==
    /\ ncalls < MaxStoreCalls
    /\ \E id \in ArgIDs : Call(Frame("Get", "direct", NoReq, "", "", id), "g_rlock")

\* store.GetAll()
CallGetAll ==
    /\ ncalls < MaxStoreCalls
    /\ Call(Frame("GetAll", "direct", NoReq, "", "", <<>>), "a_rlock")

\* store.Delete(id)
CallDelete ==
    /\ ncalls < MaxStoreCalls
    /\ \E id \in ArgIDs : Call(Frame("Delete", "direct", NoReq, "", "", id), "d_lock")

NextStore ==
    \/ CallCreate \/ CallGet \/ CallGetAll \/ CallDelete
    \/ CreateStep \/ StoreStep

SpecStore == Init /\ [][NextStore]_vars

(* --------------------------- Server.ServeHTTP ------------------------- *)
Tasks == <<"/", "t", "a", "s", "k", "s">>
TasksSlash == Tasks \o <<"/">>

\* PUT stands for every method that no route handles.
Methods == {"GET", "POST", "DELETE", "PUT"}

\* /tasks, /tasks/, /tasks/{id}, a path that differs from /tasks in case only
\* and one that only starts like it.
Paths == {Tasks, TasksSlash}
         \cup {TasksSlash \o id : id \in ArgIDs}
         \cup {<<"/", "T", "a", "s", "k", "s">>, Tasks \o <<"x">>}

\* {"title":"A","description":"D"}, {"title":"B","completed":true},
\* {"description":"D"}, {"title":""} and {invalid json}
Bodies == {Body(TRUE, TRUE, "A", TRUE, "D", FALSE, FALSE),
           Body(TRUE, TRUE, "B", FALSE, "", TRUE, TRUE),
           Body(TRUE, FALSE, "", TRUE, "D", FALSE, FALSE),
           Body(TRUE, TRUE, "", FALSE, "", FALSE, FALSE),
           Body(FALSE, FALSE, "", FALSE, "", FALSE, FALSE)}

\* Every method on every path without a body (an empty body is no JSON), and
\* POST /tasks with each body.
Requests == {[method |-> m, path |-> pa, body |-> NoBody] : m \in Methods, pa \in Paths}
            \cup {[method |-> "POST", path |-> Tasks, body |-> b] : b \in Bodies}

\* a router that sends every path starting with /tasks to the collection
RouteByPrefix(method, path) ==
    IF HasPrefix(path, Tasks)
    THEN [h |-> IF method = "POST" THEN "createTask" ELSE "listTasks", id |-> <<>>]
    ELSE [h |-> "notFound", id |-> <<>>]

\* The handler ServeHTTP picks for a method and a path, and the id it passes.
Route(method, path) ==
    IF path = Tasks \/ path = TasksSlash
    THEN [h |-> CASE method = "GET" -> "listTasks"
                  [] method = "POST" -> "createTask"
                  [] OTHER -> "methodNotAllowed",
          id |-> <<>>]
    ELSE IF HasPrefix(path, TasksSlash)
    THEN IF TrimPrefix(path, TasksSlash) = <<>>
         THEN [h |-> "notFound", id |-> <<>>]
         ELSE [h |-> CASE method = "GET" -> "getTask"
                       [] method = "DELETE" -> "deleteTask"
                       [] OTHER -> "methodNotAllowed",
               id |-> TrimPrefix(path, TasksSlash)]
    ELSE [h |-> "notFound", id |-> <<>>]

\* Route, tabulated over the requests' methods and paths.
Routes == [m \in Methods, pa \in Paths |-> Route(m, pa)]

\* a decoder that drops the description
DecodeTitleOnly(body) ==
    [err |-> ~body.valid,
     title |-> IF body.valid /\ body.hasTitle THEN body.title ELSE "",
     description |-> ""]

\* json.NewDecoder(r.Body).Decode(&input): the input struct has a Title and a
\* Description; other members of the body are dropped, absent ones stay "".
DecodeInput(body) ==
    [err |-> ~body.valid,
     title |-> IF body.valid /\ body.hasTitle THEN body.title ELSE "",
     description |-> IF body.valid /\ body.hasDescription THEN body.description ELSE ""]

\* a validation that lets a missing or empty title through
RejectInvalidOnly(body) ==
    IF DecodeInput(body).err THEN jsonError(400, "invalid JSON body") ELSE NoResp

\* Server.createTask up to its call of the store: the error it answers with,
\* or NoResp when it goes on to Create.
createTaskReject(body) ==
    IF DecodeInput(body).err THEN jsonError(400, "invalid JSON body")
    ELSE IF DecodeInput(body).title = "" THEN jsonError(400, "title is required")
    ELSE NoResp

\* A handler that answers without calling the store.
Answer(r, resp) ==
    /\ BagCardinality(calls) < NumProcs
    /\ ncalls < MaxCalls
    /\ ncalls' = ncalls + 1
    /\ calls' = calls (+) SetToBag({[Frame("none", "http", r, "", "", <<>>)
                                        EXCEPT !.pc = "h_ret", !.resp = resp]})
    /\ UNCHANGED <<tasks, nextID, mu, clock, created, deleted, live, delCalls, ncreate>>

\* Server.createTask up to its call of the store
createTask(r) ==
    IF createTaskReject(r.body) # NoResp
    THEN Answer(r, createTaskReject(r.body))
    ELSE /\ ncreate < MaxCreates
         /\ Call(Frame("Create", "http", r, DecodeInput(r.body).title,
                       DecodeInput(r.body).description, <<>>), "c_lock")

\* ServeHTTP and the handler it calls, up to the handler's call of the store,
\* for a request out of reqs.
Serve(reqs) ==
    /\ BagCardinality(calls) < NumProcs
    /\ ncalls < MaxCalls
    /\ \E r \in reqs :
        LET rt == Routes[r.method, r.path] IN
        CASE rt.h = "listTasks" -> Call(Frame("GetAll", "http", r, "", "", <<>>), "a_rlock")
          [] rt.h = "createTask" -> createTask(r)
          [] rt.h = "getTask" -> Call(Frame("Get", "http", r, "", "", rt.id), "g_rlock")
          [] rt.h = "deleteTask" -> Call(Frame("Delete", "http", r, "", "", rt.id), "d_lock")
          [] rt.h = "methodNotAllowed" -> Answer(r, methodNotAllowed)
          [] rt.h = "notFound" -> Answer(r, notFound)

\* ServeHTTP for any of the requests
ServeHTTP == Serve(Requests)

\* The handler has written its response: ServeHTTP returns.
Respond(c) ==
    /\ At(c, "h_ret")
    /\ calls' = calls (-) SetToBag({c})
    /\ UNCHANGED <<tasks, nextID, mu, clock, created, deleted, live, delCalls, ncreate,
                   ncalls>>

Next ==
    \/ ServeHTTP
    \/ CreateStep \/ StoreStep
    \/ \E c \in InFlight : Respond(c)

Spec == Init /\ [][Next]_vars

(* ------------- the ServeMux variant: TaskStore.Create(task) ----------- *)
\* s.mu.Lock()
StoreCreateLock(c) ==
    /\ At(c, "cb_lock")
    /\ CanLock
    /\ mu' = [mu EXCEPT !.w = @ + 1]
    /\ Becomes(c, [c EXCEPT !.pc = "cb_put"])
    /\ UNCHANGED <<tasks, nextID, clock, created, deleted, live, delCalls, ncreate, ncalls>>

\* s.tasks[task.ID] = task
StoreCreatePut(c) ==
    /\ At(c, "cb_put")
    /\ tasks' = MapPut(tasks, c.task.id, c.task)
    /\ Becomes(c, [c EXCEPT !.pc = "cb_ret"])
    /\ UNCHANGED <<nextID, mu, clock, created, deleted, live, delCalls, ncreate, ncalls>>

\* the deferred s.mu.Unlock()
StoreCreateReturn(c) ==
    /\ At(c, "cb_ret")
    /\ mu' = [mu EXCEPT !.w = @ - 1]
    /\ Returned(c)
    /\ Return(c)
    /\ UNCHANGED <<tasks, nextID, clock, deleted, ncreate, ncalls>>

(* ------------------ the ServeMux variant: the handlers ---------------- *)
\* The ids a request may name: the clock values as fmt's %d prints them (the
\* later ones are ids of no task while the clock has not reached them).
MuxArgIDs == {Itoa(n) : n \in 1..MaxClock}

\* /tasks, /tasks/, /tasks/{id} and a path no pattern matches
MuxPaths == {Tasks, TasksSlash}
            \cup {TasksSlash \o id : id \in MuxArgIDs}
            \cup {Tasks \o <<"x">>}

\* {"title":"A","description":"D"}, {"title":"B","completed":true},
\* {"description":"D"} and {invalid json}
MuxBodies == {Body(TRUE, TRUE, "A", TRUE, "D", FALSE, FALSE),
              Body(TRUE, TRUE, "B", FALSE, "", TRUE, TRUE),
              Body(TRUE, FALSE, "", TRUE, "D", FALSE, FALSE),
              Body(FALSE, FALSE, "", FALSE, "", FALSE, FALSE)}

MuxRequests ==
    {[method |-> m, path |-> pa, body |-> NoBody] : m \in Methods, pa \in MuxPaths}
    \cup {[method |-> "POST", path |-> Tasks, body |-> b] : b \in MuxBodies}

\* The ServeMux with the patterns SetupRoutes registers: "/tasks" matches that
\* path alone, "/tasks/" every path that starts with it, and a path that
\* matches neither goes to the mux's own not-found handler.
MuxRoute(path) ==
    IF path = Tasks THEN "handleTasks"
    ELSE IF HasPrefix(path, TasksSlash) THEN "handleTaskByID"
    ELSE "NotFound"

\* Server.handleTasks: the handler it calls
handleTasks(method) ==
    CASE method = "GET" -> "listTasks"
      [] method = "POST" -> "createTask"
      [] OTHER -> "methodNotAllowed"

\* a handleTaskByID that looks the id up before it looks at the method
ByIDExistenceFirst(method, path) ==
    LET id == SubSeq(path, Len(TasksSlash) + 1, Len(path)) IN
    IF id \notin DOMAIN tasks THEN [h |-> "NotFound", id |-> id]
    ELSE [h |-> CASE method = "GET" -> "getTask"
                  [] method = "DELETE" -> "deleteTask"
                  [] OTHER -> "methodNotAllowed",
          id |-> id]

\* Server.handleTaskByID: the handler it calls, and the id it passes
handleTaskByID(method, path) ==
    LET id == SubSeq(path, Len(TasksSlash) + 1, Len(path)) IN
    IF id = <<>> THEN [h |-> "idRequired", id |-> id]
    ELSE [h |-> CASE method = "GET" -> "getTask"
                  [] method = "DELETE" -> "deleteTask"
                  [] OTHER -> "methodNotAllowed",
          id |-> id]

MuxRoutes ==
    [m \in Methods, pa \in MuxPaths |->
        CASE MuxRoute(pa) = "handleTasks" -> [h |-> handleTasks(m), id |-> <<>>]
          [] MuxRoute(pa) = "handleTaskByID" -> handleTaskByID(m, pa)
          [] OTHER -> [h |-> "NotFound", id |-> <<>>]]

\* json.NewDecoder(r.Body).Decode(&task): the body is decoded into a Task, so
\* its completed member lands in the task; the id and the timestamp are set
\* by createTask afterwards.
DecodeTask(body) ==
    [err |-> ~body.valid,
     task |-> [id |-> <<>>,
               title |-> IF body.valid /\ body.hasTitle THEN body.title ELSE "",
               description |-> IF body.valid /\ body.hasDescription
                               THEN body.description ELSE "",
               completed |-> body.valid /\ body.hasCompleted /\ body.completed,
               created_at |-> ZeroTime]]

\* A handler of the ServeMux variant that answers without calling the store.
MuxAnswer(r, resp) ==
    /\ ncalls' = ncalls + 1
    /\ calls' = calls (+) SetToBag({[Frame("none", "mux", r, "", "", <<>>)
                                        EXCEPT !.pc = "h_ret", !.resp = resp]})
    /\ UNCHANGED <<tasks, nextID, mu, clock, created, deleted, live, delCalls, ncreate>>

\* createTask of the ServeMux variant, up to its reading of the clock
muxCreateTask(r) ==
    IF DecodeTask(r.body).err THEN MuxAnswer(r, httpError(400, "invalid JSON"))
    ELSE IF DecodeTask(r.body).task.title = ""
    THEN MuxAnswer(r, httpError(400, "title is required"))
    ELSE /\ ncreate < MaxCreates
         /\ Call([Frame("Create", "mux", r, DecodeTask(r.body).task.title,
                        DecodeTask(r.body).task.description, <<>>)
                    EXCEPT !.task = DecodeTask(r.body).task], "m_id")

\* The mux, handleTasks or handleTaskByID, and the handler they call, up to its
\* call of the store or its reading of the clock.
ServeMuxOf(reqs) ==
    /\ BagCardinality(calls) < NumProcs
    /\ ncalls < MaxCalls
    /\ \E r \in reqs :
        LET rt == MuxRoutes[r.method, r.path] IN
        CASE rt.h = "listTasks" -> Call(Frame("GetAll", "mux", r, "", "", <<>>), "a_rlock")
          [] rt.h = "createTask" -> muxCreateTask(r)
          [] rt.h = "getTask" -> Call(Frame("Get", "mux", r, "", "", rt.id), "g_rlock")
          [] rt.h = "deleteTask" -> Call(Frame("Delete", "mux", r, "", "", rt.id), "d_lock")
          [] rt.h = "methodNotAllowed" -> MuxAnswer(r, httpError(405, "method not allowed"))
          [] rt.h = "idRequired" -> MuxAnswer(r, httpError(400, "task ID required"))
          [] rt.h = "NotFound" -> MuxAnswer(r, muxNotFound)

\* the mux for any of the requests
ServeMux == ServeMuxOf(MuxRequests)

\* task.ID = fmt.Sprintf("%d", time.Now().UnixNano()); task.CreatedAt = time.Now(),
\* then s.store.Create(task). The two readings of the clock are one step: the
\* goroutine touches nothing shared between them, and the clock may advance.
CreateTaskStamp(c) ==
    /\ At(c, "m_id")
    /\ \E now \in NowValues :
        \E later \in {t \in {now, now + 1} : t <= MaxClock} :
            /\ clock' = later
            /\ Becomes(c, [c EXCEPT !.pc = "cb_lock", !.id = Itoa(now),
                                    !.task.id = Itoa(now), !.task.created_at = later])
    /\ UNCHANGED <<tasks, nextID, mu, created, deleted, live, delCalls, ncreate, ncalls>>

InitMux ==
    /\ tasks = EmptyMap
    /\ nextID = 0
    /\ mu = [w |-> 0, r |-> 0]
    /\ clock = 1
    /\ calls = EmptyBag
    /\ created = <<>>
    /\ deleted = <<>>
    /\ live = NoArgs
    /\ delCalls = [id \in MuxArgIDs |-> 0]
    /\ ncreate = 0
    /\ ncalls = 0

NextMux ==
    \/ ServeMux
    \/ \E c \in InFlight : CreateTaskStamp(c)
    \/ \E c \in InFlight : StoreCreateLock(c)
    \/ \E c \in InFlight : StoreCreatePut(c)
    \/ \E c \in InFlight : StoreCreateReturn(c)
    \/ StoreStep
    \/ \E c \in InFlight : Respond(c)

SpecMux == InitMux /\ [][NextMux]_vars

(* ================== properties of the counter-based store ============== *)
\* the ids of the tasks in a slice
IDsOf(list) == {list[i].id : i \in 1..Len(list)}

\* no two entries of the slice have the same id
NoDuplicates(list) ==
    \A i, j \in 1..Len(list) : i # j => list[i].id # list[j].id

\* the ids for which a Delete had returned true as the call of frame c was made
DeletedAtCall(c) == {deleted[i] : i \in 1..c.g_ndel}

\* C1: a GetAll holds the read lock from before its read to its return, so its
\* result is the store as the completed calls left it: the slice has one task
\* per Create that returned minus one per Delete that returned true, these are
\* the created ids that were not deleted, each once; when the GetAll is the
\* only call under way every Create that was called has returned; and when no
\* call is under way the map holds exactly those tasks.
C1_GetAllCountsCreatesMinusDeletes ==
    /\ \A c \in InFlight :
         c.op = "GetAll" /\ c.pc = "a_ret" =>
            /\ Len(c.list) = Len(created) - Len(deleted)
            /\ IDsOf(c.list) = Range(created) \ Range(deleted)
            /\ NoDuplicates(c.list)
            /\ (BagCardinality(calls) = 1 => Len(c.list) = ncreate - Len(deleted))
    /\ calls = EmptyBag =>
         /\ Cardinality(DOMAIN tasks) = ncreate - Len(deleted)
         /\ DOMAIN tasks = Range(created) \ Range(deleted)

\* Two Creates and a Delete that returned true have completed, and a GetAll
\* that runs alone has built its slice of the one task that is left.
C1_Witness ==
    \E c \in InFlight :
        /\ c.op = "GetAll" /\ c.pc = "a_ret"
        /\ BagCardinality(calls) = 1
        /\ ncreate = 2 /\ Len(deleted) = 1 /\ Len(c.list) = 1

\* C2: the ids Create has returned, and the id of a Create that is about to
\* return, are pairwise distinct, and while no Delete has been called every
\* one of the returned ids is the key of a stored task with that id.
C2_ConcurrentCreatesDistinctIDs ==
    /\ \A i, j \in 1..Len(created) : i # j => created[i] # created[j]
    /\ \A c \in InFlight :
         c.op = "Create" /\ c.pc = "c_ret" => c.task.id \notin Range(created)
    /\ (\A id \in DOMAIN delCalls : delCalls[id] = 0)
       /\ (\A c \in InFlight : c.op # "Delete")
         => \A i \in 1..Len(created) :
              /\ created[i] \in DOMAIN tasks
              /\ tasks[created[i]].id = created[i]

\* Two callers are in Create at once: one has returned its task, the other,
\* called before that return (no third call was made), is about to return its own.
C2_Witness ==
    /\ Len(created) = 1
    /\ ncalls = 2
    /\ \E c \in InFlight :
         c.op = "Create" /\ c.pc = "c_ret" /\ c.g_ncre = 0

\* C4: a Get called on the id a Create returned, with no Delete called on that
\* id since the Create or during the Get, finds the task: it has that id, the
\* title and the description the Create was given, completed false, an id that
\* is not empty and a timestamp that is not the zero time.
C4_CreateThenGet ==
    \A c \in InFlight :
        c.op = "Get" /\ c.pc = "g_ret" /\ c.g_live /\ c.id \in DOMAIN live =>
            /\ c.ok
            /\ c.task.id = c.id
            /\ c.task.title = live[c.id].title
            /\ c.task.description = live[c.id].description
            /\ c.task.completed = FALSE
            /\ c.task.id # <<>>
            /\ c.task.created_at # ZeroTime

\* A Get of the second task created, which has a description, after the first
\* task was deleted.
C4_Witness ==
    \E c \in InFlight :
        /\ c.op = "Get" /\ c.pc = "g_ret" /\ c.g_live /\ c.id \in DOMAIN live
        /\ live[c.id].description = "D"
        /\ Len(created) = 2 /\ Len(deleted) = 1

\* C5: an id for which Delete has returned true is the key of no stored task
\* from then on; a Get called after that return reports not found and the zero
\* task, and a GetAll called after it returns no task with that id.
C5_DeletedStaysAbsent ==
    /\ \A id \in Range(deleted) : id \notin DOMAIN tasks
    /\ \A c \in InFlight :
         /\ c.op = "Get" /\ c.pc = "g_ret" /\ c.id \in DeletedAtCall(c)
              => ~c.ok /\ c.task = ZeroTask
         /\ c.op = "GetAll" /\ c.pc = "a_ret"
              => IDsOf(c.list) \cap DeletedAtCall(c) = {}

\* A Get of a deleted id, called after the Delete returned true, with another
\* task created and not deleted.
C5_Witness ==
    \E c \in InFlight :
        /\ c.op = "Get" /\ c.pc = "g_ret" /\ c.id \in DeletedAtCall(c)
        /\ Len(created) = 2 /\ created[2] \notin Range(deleted)

\* C6: Delete returns true at most once per id; a Delete called on a created
\* task before any other Delete on its id, and during which no other Delete on
\* its id is called, returns true; a Delete called after one has returned true
\* for its id returns false; and once every call has returned, an id on which
\* Delete was called after its Create has exactly one Delete that returned true.
C6_ExactlyOneDeleteSucceeds ==
    /\ \A id \in DOMAIN delCalls : Count(deleted, id) <= 1
    /\ \A c \in InFlight :
         c.op = "Delete" /\ c.pc = "d_ret" =>
            /\ c.ok => c.id \notin Range(deleted)
            /\ c.g_live /\ c.g_rank = 1 /\ delCalls[c.id] = 1 => c.ok
            /\ c.id \in DeletedAtCall(c) => ~c.ok
    /\ calls = EmptyBag =>
         \A id \in Range(created) : delCalls[id] >= 1 => Count(deleted, id) = 1

\* The second of two Deletes of a created task, called after the first had
\* returned true, is about to return false.
C6_Witness ==
    \E c \in InFlight :
        /\ c.op = "Delete" /\ c.pc = "d_ret" /\ c.id \in DeletedAtCall(c)
        /\ ~c.ok /\ c.g_rank = 2

\* Two Deletes of one created task are under way at once: the one that took the
\* lock first is about to return true while the other waits for the lock.
C6_WitnessConcurrent ==
    \E c, d \in InFlight :
        /\ c.op = "Delete" /\ c.pc = "d_ret" /\ c.ok
        /\ d.op = "Delete" /\ d.pc = "d_lock" /\ d.id = c.id

(* ======================= properties of ServeHTTP ====================== *)
\* the frames in which a goroutine has just arrived with this step
Arrived == {d \in BagToSet(calls') : CopiesIn(d, calls') > CopiesIn(d, calls)}

\* the Creates that have incremented the counter
Incremented ==
    Len(created)
    + BagCardinality([d \in {e \in InFlight : e.op = "Create" /\ e.pc \in {"c_put", "c_ret"}}
                        |-> CopiesIn(d, calls)])

\* a body that is no JSON, or has no title, or has the empty title
BadBody(b) == ~b.valid \/ ~b.hasTitle \/ b.title = ""

PostTasks(r) == r.method = "POST" /\ r.path = Tasks

\* the handler of a request has written its response
Answered(c) == c.via = "http" /\ c.pc = "h_ret"

\* C8: a POST /tasks with a bad body never calls the store and is answered
\* with 400 and an error body; the counter is one more than the number of
\* Creates that have incremented it, so that rejected requests use up no id.
C8_RejectedPostState ==
    /\ \A c \in InFlight :
         c.via = "http" /\ PostTasks(c.req) /\ BadBody(c.req.body) =>
            /\ c.op = "none"
            /\ c.pc = "h_ret"
            /\ c.resp.status = 400
            /\ c.resp.kind = "error" /\ c.resp.error # ""
    /\ nextID = 1 + Incremented

\* C8: the step in which a POST /tasks with a bad body is answered leaves the
\* task map and the counter as they were.
C8_RejectedPostStep ==
    (\E d \in Arrived : d.via = "http" /\ PostTasks(d.req) /\ BadBody(d.req.body))
        => tasks' = tasks /\ nextID' = nextID

\* C8: a POST /tasks request whose body is malformed JSON, or whose title is
\* missing or empty, is answered with status 400 and an error body and leaves
\* the task map and the id counter untouched, so the next successful create
\* receives the id it would have received without it.
C8_RejectedPostLeavesStore == []C8_RejectedPostState /\ [][C8_RejectedPostStep]_vars

\* A POST /tasks without a title has been answered with 400 while the store
\* holds a task, and the one successful create so far was answered with the
\* first id.
C8_Witness ==
    /\ \E d \in InFlight :
         /\ Answered(d) /\ PostTasks(d.req)
         /\ d.req.body.valid /\ ~d.req.body.hasTitle
         /\ d.resp.status = 400
    /\ \E c \in InFlight :
         /\ Answered(c) /\ c.op = "Create" /\ c.resp.status = 201
         /\ c.resp.task.id = SprintfTaskID(1)
    /\ DOMAIN tasks = {SprintfTaskID(1)}

\* the id a path names: what follows "/tasks/"
PathID(p) == SubSeq(p, Len(TasksSlash) + 1, Len(p))

\* the path is /tasks/{id} with an id that is not empty
TaskPath(p) == HasPrefix(p, TasksSlash) /\ PathID(p) # <<>>

\* C10, the status by method and path of a request that was answered
C10_StatusOf(c) ==
    LET m == c.req.method
        p == c.req.path
        st == c.resp.status
    IN  /\ p = Tasks /\ m = "GET" => st = 200 /\ c.op = "GetAll"
        /\ p = Tasks /\ m = "POST" =>
              /\ st \in {201, 400}
              /\ st = 201 <=> c.op = "Create"
        /\ p = Tasks /\ m \notin {"GET", "POST"} => st = 405
        /\ TaskPath(p) /\ m = "GET" =>
              /\ st \in {200, 404}
              /\ c.op = "Get" /\ c.id = PathID(p)
              /\ st = 200 <=> c.ok
        /\ TaskPath(p) /\ m = "DELETE" =>
              /\ st \in {204, 404}
              /\ c.op = "Delete" /\ c.id = PathID(p)
              /\ st = 204 <=> c.ok
        /\ TaskPath(p) /\ m \notin {"GET", "DELETE"} => st = 405
        /\ p # Tasks /\ ~HasPrefix(p, TasksSlash) => st = 404
        /\ st = 405 \/ (st = 404 /\ ~HasPrefix(p, TasksSlash)) => c.op = "none"

C10_StatusState == \A c \in InFlight : Answered(c) => C10_StatusOf(c)

\* C10: the step in which a request is answered 405, or 404 for a path that is
\* neither /tasks nor under /tasks/, leaves the store as it was.
C10_StatusStep ==
    (\E d \in Arrived :
        /\ Answered(d)
        /\ \/ d.resp.status = 405
           \/ d.resp.status = 404 /\ d.req.path # Tasks /\ ~HasPrefix(d.req.path, TasksSlash))
        => tasks' = tasks /\ nextID' = nextID

\* C10: ServeHTTP answers by method and path, the path compared as it is
\* written: GET /tasks 200, POST /tasks 201 or 400, GET /tasks/{id} 200 or 404,
\* DELETE /tasks/{id} 204 or 404, any other method on these 405, any path that
\* is neither /tasks nor under /tasks/ 404; and the 405 and unknown-path 404
\* answers leave the store unchanged.
C10_StatusByMethodAndPath == []C10_StatusState /\ [][C10_StatusStep]_vars

\* GET on /Tasks, which differs from /tasks in case only, was answered 404 and
\* PUT on the path of a stored task 405, and the task is still stored.
C10_Witness ==
    /\ \E c \in InFlight :
         /\ Answered(c) /\ c.req.method = "GET"
         /\ c.req.path = <<"/", "T", "a", "s", "k", "s">>
         /\ c.resp.status = 404
    /\ \E d \in InFlight :
         /\ Answered(d) /\ d.req.method = "PUT"
         /\ TaskPath(d.req.path) /\ PathID(d.req.path) \in DOMAIN tasks
         /\ d.resp.status = 405

(* =================== properties of the ServeMux variant ================ *)
\* C3: the ids createTask derives from the clock are pairwise distinct over the
\* tasks Create has stored, and while no DELETE has been requested every one
\* of those tasks is still stored under its id, with the title and the
\* description of its own request: no create overwrites the record of another.
C3_ClockIDsDistinct ==
    /\ \A i, j \in 1..Len(created) : i # j => created[i] # created[j]
    /\ (\A id \in DOMAIN delCalls : delCalls[id] = 0)
       /\ (\A c \in InFlight : c.op # "Delete")
         => /\ Cardinality(DOMAIN tasks) >= Len(created)
            /\ \A c \in InFlight :
                 c.op = "Create" /\ c.pc = "h_ret" =>
                    /\ c.task.id \in DOMAIN tasks
                    /\ tasks[c.task.id] = c.task

\* C7: every stored task, and every task in the response to POST /tasks,
\* GET /tasks or GET /tasks/{id}, has completed = false.
C7_CompletedAlwaysFalse ==
    /\ \A id \in DOMAIN tasks : tasks[id].completed = FALSE
    /\ \A c \in InFlight :
         c.pc = "h_ret" =>
            /\ c.resp.task.completed = FALSE
            /\ \A i \in 1..Len(c.resp.list) : c.resp.list[i].completed = FALSE

\* C9, one step: a task stored before and after the step is the same record;
\* a task appears only in a step of a create, and a task disappears only in a
\* step of a Delete of its own id.
C9_StoredTaskStep ==
    /\ \A id \in (DOMAIN tasks) \cap (DOMAIN tasks') : tasks'[id] = tasks[id]
    /\ \A id \in (DOMAIN tasks') \ (DOMAIN tasks) :
         /\ tasks'[id].id = id
         /\ \E d \in Arrived : d.op = "Create" /\ d.task = tasks'[id]
    /\ \A id \in (DOMAIN tasks) \ (DOMAIN tasks') :
         \E c \in InFlight : c.op = "Delete" /\ c.id = id /\ c.pc = "d_del"

\* C9: no step changes a task that is already stored; a record appears only
\* through a create and disappears only, as a whole, through a delete of its
\* own id.
C9_StoredTasksNeverChange == [][C9_StoredTaskStep]_vars

(* ===================== the bare path /tasks/ (C11) ==================== *)
\* C11: a GET or DELETE on the path /tasks/ is answered 404 or 400 and is not
\* served as a list request (GetAll is not called for it).
C11_BareSlashRejected ==
    \A c \in InFlight :
        c.pc = "h_ret" /\ c.req.path = TasksSlash /\ c.req.method \in {"GET", "DELETE"} =>
            /\ c.resp.status \in {404, 400}
            /\ c.op # "GetAll"
            /\ c.resp.kind # "list"

(* ========================= DELETE /tasks/{id} (C12) =================== *)
\* the ids of the tasks the completed calls have left in the store
Remaining == Range(created) \ Range(deleted)

\* C12, in a state: a Delete that is about to return (it holds the lock) returns
\* true exactly when the id was stored, and then the task is gone; the
\* DELETE is answered 204 without a body when Delete returned true and 404
\* with an error when it returned false; a GET of an id called after a DELETE
\* of it was answered 204 is answered 404.
C12_DeleteState ==
    \A c \in InFlight :
        /\ c.via = "http" /\ c.op = "Delete" /\ c.pc = "d_ret" =>
              /\ c.ok <=> c.id \in Remaining
              /\ c.id \notin DOMAIN tasks
        /\ Answered(c) /\ c.op = "Delete" =>
              /\ c.resp.status = IF c.ok THEN 204 ELSE 404
              /\ c.ok => c.resp.kind = "none" /\ c.id \in Range(deleted)
              /\ ~c.ok => c.resp.kind = "error"
        /\ Answered(c) /\ c.op = "Get" /\ c.id \in DeletedAtCall(c) =>
              c.resp.status = 404

\* C12, in a step: a Delete that has found, or goes on to report, that the id is
\* not stored changes neither the task map nor the counter.
C12_DeleteStep ==
    (\E d \in Arrived : d.op = "Delete" /\ d.pc \in {"d_ret", "h_ret"} /\ ~d.ok)
        => tasks' = tasks /\ nextID' = nextID

\* C12: DELETE /tasks/{id} of a stored id is answered 204 with an empty body
\* and removes the task, so that a following GET of the id is answered 404;
\* DELETE of an id that is not stored is answered 404 and leaves the store
\* unchanged.
C12_DeleteThenGet == []C12_DeleteState /\ [][C12_DeleteStep]_vars

\* A GET of a task, called after the DELETE of it was answered 204, has been
\* answered 404.
C12_Witness ==
    \E c \in InFlight :
        /\ Answered(c) /\ c.op = "Get" /\ c.id \in DeletedAtCall(c)
        /\ c.resp.status = 404

(* ========================= response bodies (C13) ===================== *)
\* C13: every response with a body carries Content-Type application/json and
\* a JSON body (a task, a list of tasks or an error object); every 400, 404
\* and 405 response is an error object with a message; and only the 204
\* response has no body.
C13_AllResponsesJSON ==
    \A c \in InFlight :
        c.pc = "h_ret" =>
            /\ c.resp.kind # "none" =>
                  /\ c.resp.ctype = "application/json"
                  /\ c.resp.kind \in {"task", "list", "error"}
            /\ c.resp.status \in {400, 404, 405} =>
                  c.resp.kind = "error" /\ c.resp.error # ""
            /\ c.resp.kind = "none" <=> c.resp.status = 204

(* ======================= POST /tasks round trip (C14) ================= *)
\* the description a body gives: the empty string when it has none
DescriptionOf(b) == IF b.hasDescription THEN b.description ELSE ""

\* C14: a POST /tasks with a title is answered 201 with the task Create
\* returned: the title and the description of the body, completed false and an
\* id that is not empty; while no DELETE of that id has been requested the
\* task is stored under the id, a GET of the id called after the POST was
\* answered gets 200 with the stored task, and a GET /tasks returns it.
C14_PostThenGet ==
    \A c \in InFlight :
        /\ Answered(c) /\ PostTasks(c.req) /\ ~BadBody(c.req.body) =>
              /\ c.op = "Create"
              /\ c.resp.status = 201 /\ c.resp.kind = "task"
              /\ c.resp.task = c.task
              /\ c.resp.task.title = c.req.body.title
              /\ c.resp.task.description = DescriptionOf(c.req.body)
              /\ c.resp.task.completed = FALSE
              /\ c.resp.task.id # <<>>
              /\ c.resp.task.id \in DOMAIN live =>
                    /\ c.resp.task.id \in DOMAIN tasks
                    /\ tasks[c.resp.task.id] = c.resp.task
        /\ Answered(c) /\ c.op = "Get" /\ c.g_live /\ c.id \in DOMAIN live =>
              /\ c.resp.status = 200 /\ c.resp.kind = "task"
              /\ c.resp.task = tasks[c.id]
              /\ c.resp.task.id = c.id
              /\ c.resp.task.title = live[c.id].title
              /\ c.resp.task.description = live[c.id].description
        /\ c.via = "http" /\ c.op = "GetAll" /\ c.pc = "a_ret" =>
              \A id \in DOMAIN live :
                  \E i \in 1..Len(c.list) : c.list[i] = tasks[id]
        /\ Answered(c) /\ c.op = "GetAll" =>
              /\ c.resp.status = 200 /\ c.resp.kind = "list"
              /\ c.resp.list = c.list

\* The POST of {"title":"A","description":"D"} was answered 201, and a GET of
\* the id it returned, called after that, was answered 200 with that task.
C14_Witness ==
    \E c, d \in InFlight :
        /\ Answered(c) /\ PostTasks(c.req) /\ c.resp.status = 201
        /\ c.resp.task.title = "A" /\ c.resp.task.description = "D"
        /\ Answered(d) /\ d.op = "Get" /\ d.g_live /\ d.id = c.resp.task.id
        /\ d.resp.status = 200 /\ d.resp.task = c.resp.task

(* ========================= GetAll's snapshot (C15) ==================== *)
\* C15: a GetAll that has built its slice and not yet returned holds the read
\* lock, so the store now is the store it read: no Create or Delete is inside
\* its critical section, the slice has every stored task exactly once and
\* nothing else, and it is a slice, not nil, also when the store is empty.
C15_GetAllSnapshot ==
    \A c \in InFlight :
        c.op = "GetAll" /\ c.pc = "a_ret" =>
            /\ mu.w = 0
            /\ \A d \in InFlight :
                 d.pc \notin {"c_id", "c_inc", "c_put", "c_ret", "d_chk", "d_del", "d_ret"}
            /\ {c.list[i] : i \in 1..Len(c.list)} = {tasks[id] : id \in DOMAIN tasks}
            /\ Len(c.list) = Cardinality(DOMAIN tasks)
            /\ NoDuplicates(c.list)
            /\ ~c.listNil
            /\ DOMAIN tasks = {} => c.list = <<>>

\* A GetAll has built its slice of the one stored task while a Create waits
\* for the lock.
C15_Witness ==
    \E c, d \in InFlight :
        /\ c.op = "GetAll" /\ c.pc = "a_ret" /\ Len(c.list) = 1
        /\ d.op = "Create" /\ d.pc = "c_lock"

\* A GetAll of the empty store has built the empty slice while a Create waits
\* for the lock.
C15_WitnessEmpty ==
    \E c, d \in InFlight :
        /\ c.op = "GetAll" /\ c.pc = "a_ret" /\ c.list = <<>> /\ ~c.listNil
        /\ d.op = "Create" /\ d.pc = "c_lock"

(* ========================= mutual exclusion (C16) ===================== *)
\* how many goroutines are at one of the positions
NumAt(pcs) ==
    BagCardinality([d \in {e \in InFlight : e.pc \in pcs} |-> CopiesIn(d, calls)])

\* the positions between Lock and Unlock of Create and of Delete
WriterPCs == {"c_id", "c_inc", "c_put", "c_ret", "d_chk", "d_del", "d_ret"}

\* the positions between RLock and RUnlock of Get and of GetAll
ReaderPCs == {"g_read", "g_ret", "a_read", "a_ret"}

\* C16: at most one Create or Delete is inside its critical section, and while
\* one is, no Get or GetAll is inside its own; the mutex counts them.
C16_WritersExclusive ==
    /\ NumAt(WriterPCs) <= 1
    /\ NumAt(WriterPCs) = 1 => NumAt(ReaderPCs) = 0
    /\ mu.w = NumAt(WriterPCs)
    /\ mu.r = NumAt(ReaderPCs)

\* A Create is inside its critical section while a Delete waits for the lock.
C16_Witness ==
    \E c, d \in InFlight :
        /\ c.op = "Create" /\ c.pc = "c_put"
        /\ d.op = "Delete" /\ d.pc = "d_lock"

(* ================= operations that change nothing (C17) =============== *)
\* the frames of the goroutines that take this step
Moved == {c \in InFlight : CopiesIn(c, calls') < CopiesIn(c, calls)}

\* C17, in a state: a Get that is about to return reports found exactly when
\* the id is stored, and the zero task when it is not; a Delete that is about
\* to return reports true exactly when the id was stored; an id that is not
\* stored gives false, as an ordinary result.
C17_AbsentState ==
    \A c \in InFlight :
        /\ c.op = "Get" /\ c.pc = "g_ret" =>
              /\ c.ok <=> c.id \in DOMAIN tasks
              /\ ~c.ok => c.task = ZeroTask
        /\ c.op = "Delete" /\ c.pc = "d_ret" =>
              /\ c.ok <=> c.id \in Remaining
              /\ c.id \notin DOMAIN tasks

\* C17, in a step: a step of a Get, of a GetAll, or of a Delete of an id that
\* is not stored leaves the task map and the counter as they were.
C17_AbsentStep ==
    \A c \in Moved :
        c.op \in {"Get", "GetAll"} \/ (c.op = "Delete" /\ c.id \notin DOMAIN tasks)
            => tasks' = tasks /\ nextID' = nextID

\* C17: Get, GetAll and a Delete of an id that is not stored leave the task
\* map and the id counter unchanged; Get of such an id reports found=false and
\* Delete of it returns false.
C17_ReadsChangeNothing == []C17_AbsentState /\ [][C17_AbsentStep]_vars

\* A Delete of an id no task has is about to return false while the store
\* holds a task.
C17_Witness ==
    \E c \in InFlight :
        /\ c.op = "Delete" /\ c.pc = "d_ret" /\ ~c.ok /\ c.id = UnknownID
        /\ DOMAIN tasks # {}

(* ======================== running to completion (C18) ================= *)
\* a step of a goroutine that is in a store call or a handler
Step == CreateStep \/ StoreStep \/ \E c \in InFlight : Respond(c)

\* One request per handler and outcome: the list, a create, a rejected create,
\* a get, a delete, a request for an id no task has, a method no route handles
\* and a path no route handles.
LiveRequests ==
    {r \in Requests :
        \/ r.path = Tasks /\ r.method \in {"GET", "PUT"}
        \/ PostTasks(r) /\ r.body \in {Body(TRUE, TRUE, "A", TRUE, "D", FALSE, FALSE), NoBody}
        \/ r.method \in {"GET", "DELETE"}
            /\ r.path \in {TasksSlash \o SprintfTaskID(1), TasksSlash \o UnknownID}
        \/ r.method = "GET" /\ r.path = Tasks \o <<"x">>}

NextFair ==
    \/ Serve(LiveRequests)
    \/ CreateStep \/ StoreStep
    \/ \E c \in InFlight : Respond(c)

\* The server under the Go scheduler: a goroutine that can run is run.
SpecFair == Init /\ [][NextFair]_vars /\ WF_vars(Step)

\* C18, in a state: while requests are under way one of them can take a step,
\* and when none is under way the lock is free.
C18_NoneBlocked ==
    /\ calls # EmptyBag => ENABLED Step
    /\ calls = EmptyBag => mu = [w |-> 0, r |-> 0]

\* C18: every dispatched request runs to completion: the requests under way
\* are never all blocked, every one of them is eventually answered and gone,
\* and the lock is released on every path.
C18_RunsToCompletion ==
    /\ []C18_NoneBlocked
    /\ (calls # EmptyBag ~> calls = EmptyBag)

\* A DELETE of an id that is not stored is about to return false, holding the
\* lock, while a POST waits for the lock.
C18_Witness ==
    \E c, d \in InFlight :
        /\ c.op = "Delete" /\ c.pc = "d_ret" /\ ~c.ok
        /\ d.op = "Create" /\ d.pc = "c_lock"

(* ================ method before existence, both servers (C19) ========= *)
\* a create, a list, and every method on the path of the first id and of
\* another id
MethodRequests ==
    {r \in Requests :
        \/ PostTasks(r) /\ r.body = Body(TRUE, TRUE, "A", TRUE, "D", FALSE, FALSE)
        \/ r.method = "GET" /\ r.path = Tasks
        \/ r.path \in {TasksSlash \o SprintfTaskID(1), TasksSlash \o UnknownID}}

MuxMethodRequests ==
    {r \in MuxRequests :
        \/ PostTasks(r) /\ r.body = Body(TRUE, TRUE, "A", TRUE, "D", FALSE, FALSE)
        \/ r.method = "GET" /\ r.path = Tasks
        \/ r.path \in {TasksSlash \o Itoa(1), TasksSlash \o Itoa(2)}}

\* Either server: the one with the counter-based store behind ServeHTTP, or
\* the one with the ServeMux, whose store has no counter (nextID stays 0).
InitBoth == Init \/ InitMux

NextBoth ==
    \/ /\ nextID >= 1
       /\ \/ Serve(MethodRequests)
          \/ CreateStep
    \/ /\ nextID = 0
       /\ \/ ServeMuxOf(MuxMethodRequests)
          \/ \E c \in InFlight : CreateTaskStamp(c)
          \/ \E c \in InFlight : StoreCreateLock(c)
          \/ \E c \in InFlight : StoreCreatePut(c)
          \/ \E c \in InFlight : StoreCreateReturn(c)
    \/ StoreStep
    \/ \E c \in InFlight : Respond(c)

SpecBoth == InitBoth /\ [][NextBoth]_vars

\* C19, in a state: a request on /tasks/{id} with a method other than GET and
\* DELETE was answered 405 by a handler that called no store operation.
C19_MethodState ==
    \A c \in InFlight :
        c.pc = "h_ret" /\ TaskPath(c.req.path) /\ c.req.method \notin {"GET", "DELETE"} =>
            /\ c.resp.status = 405
            /\ c.op = "none"

\* C19, in a step: the step that answers such a request leaves the store as
\* it was.
C19_MethodStep ==
    (\E d \in Arrived :
        d.pc = "h_ret" /\ TaskPath(d.req.path) /\ d.req.method \notin {"GET", "DELETE"})
        => tasks' = tasks /\ nextID' = nextID

\* C19: on /tasks/{id} a method other than GET and DELETE is answered 405
\* whether or not a task with the id is stored, never 404, without reading or
\* changing the store, by ServeHTTP and by handleTaskByID.
C19_MethodBeforeExistence == []C19_MethodState /\ [][C19_MethodStep]_vars

\* The ServeMux server has answered PUT on the path of a stored task and PUT
\* on the path of an id no task has, both with 405.
C19_Witness ==
    \E c, d \in InFlight :
        /\ c.via = "mux" /\ c.pc = "h_ret" /\ c.req.method = "PUT"
        /\ TaskPath(c.req.path) /\ PathID(c.req.path) \in DOMAIN tasks
        /\ c.resp.status = 405
        /\ d.via = "mux" /\ d.pc = "h_ret" /\ d.req.method = "PUT"
        /\ TaskPath(d.req.path) /\ PathID(d.req.path) \notin DOMAIN tasks
        /\ d.resp.status = 405

\* ServeHTTP has answered PUT on the path of a stored task with 405.
C19_WitnessServeHTTP ==
    \E c \in InFlight :
        /\ Answered(c) /\ c.req.method = "PUT"
        /\ TaskPath(c.req.path) /\ PathID(c.req.path) \in DOMAIN tasks
        /\ c.resp.status = 405

(* ===================== the id counter only grows (C20) ================ *)
\* C20, in a state: the k-th Create to return (Create holds the lock from its
\* Lock to its return, so the k-th to take the lock) returned task-k; the
\* Create that holds the lock, the next in that order, reads and takes the
\* next number; nextID is 1 plus the number of Creates that incremented it; and
\* no id was returned twice, whatever was deleted.
C20_CounterState ==
    /\ \A k \in 1..Len(created) : created[k] = SprintfTaskID(k)
    /\ \A c \in InFlight :
        c.op = "Create" =>
            /\ c.pc = "c_id" => nextID = Len(created) + 1
            /\ c.pc \in {"c_inc", "c_put", "c_ret"} => c.id = SprintfTaskID(Len(created) + 1)
    /\ nextID = 1 + Incremented
    /\ \A i, j \in 1..Len(created) : i # j => created[i] # created[j]

\* C20, in a step: the counter never goes down, only a Create's increment
\* changes it, by one, and a step of a Delete leaves it as it is.
C20_CounterStep ==
    /\ nextID' >= nextID
    /\ nextID' # nextID =>
        /\ nextID' = nextID + 1
        /\ \E c \in InFlight : c.op = "Create" /\ c.pc = "c_inc"
    /\ (\E d \in Moved : d.op = "Delete") => nextID' = nextID

\* C20: the counter only grows, the k-th Create to take the lock returns
\* task-k, nextID is 1 plus the number of Creates performed, a Delete never
\* lowers the counter, and an id once issued is never issued again.
C20_CounterOnlyGrows == []C20_CounterState /\ [][C20_CounterStep]_vars

\* A Create called after the Delete of task-1 had returned holds task-2, with
\* the counter at 3 and task-1 gone.
C20_Witness ==
    \E c \in InFlight :
        /\ c.op = "Create" /\ c.pc = "c_ret"
        /\ c.g_ndel >= 1 /\ deleted[1] = SprintfTaskID(1)
        /\ SprintfTaskID(1) \notin DOMAIN tasks
        /\ c.id = SprintfTaskID(2)
        /\ nextID = 3

(* ===================== keys, ids and the counter (C21) ================ *)
\* C21: every key k of TaskStore.tasks maps to a task whose id is k, k is
\* task-n for some n with 1 <= n < nextID, and the map holds at most
\* nextID - 1 tasks.
C21_KeysAreIssuedIDs ==
    /\ \A k \in DOMAIN tasks :
        /\ tasks[k].id = k
        /\ \E n \in 1..(nextID - 1) : k = SprintfTaskID(n)
    /\ Cardinality(DOMAIN tasks) <= nextID - 1

\* The task of the last id issued is stored while the task of an earlier id
\* was deleted: the map holds fewer tasks than the counter issued ids.
C21_Witness ==
    /\ Cardinality(DOMAIN tasks) >= 1
    /\ Cardinality(DOMAIN tasks) < nextID - 1
    /\ deleted # <<>>
    /\ \E k \in DOMAIN tasks : k = SprintfTaskID(nextID - 1)

(* ========================= linearizability (C22) ====================== *)
\* The store run by one goroutine at a time: the map and the counter, and what
\* each operation does to them and returns when nothing interleaves with it.
SeqCreate(s, title, description, now) ==
    LET id == SprintfTaskID(s.nextID)
        task == NewTask(id, title, description, now)
    IN [store |-> [tasks |-> MapPut(s.tasks, id, task), nextID |-> s.nextID + 1],
        task |-> task]

SeqGet(s, id) ==
    [store |-> s, task |-> MapGet(s.tasks, id), ok |-> id \in DOMAIN s.tasks]

SeqGetAll(s) ==
    {[store |-> s, list |-> l, listNil |-> FALSE] : l \in GetAllSlices(s.tasks)}

SeqDelete(s, id) ==
    IF id \in DOMAIN s.tasks
    THEN [store |-> [s EXCEPT !.tasks = MapDelete(s.tasks, id)], ok |-> TRUE]
    ELSE [store |-> s, ok |-> FALSE]

\* The sequential store the concurrent one stands for: a Create that has
\* incremented the counter and not yet stored its task has not taken effect.
Abs == [tasks |-> tasks, nextID |-> nextID - NumAt({"c_put"})]

\* the positions at which a call holds its result and only has to return
LinPCs == {"c_ret", "g_ret", "a_ret", "d_ret"}

\* the calls that take effect in this step
Linearized == {d \in Arrived : d.pc \in LinPCs}

\* C22: every concurrent execution of Create, Get, GetAll and Delete is
\* linearizable. Each call takes effect in one step between its call and its
\* return (so the order of these steps agrees with the real-time order of
\* calls that do not overlap): in that step it gets the result the sequential
\* store gives for it and changes the sequential store as the sequential
\* operation does; no other step changes the sequential store; and the call
\* returns the result it got.
C22_LinearizationStep ==
    /\ Cardinality(Linearized) <= 1
    /\ Linearized = {} => Abs' = Abs
    /\ \A d \in Linearized :
        CASE d.op = "Create" ->
                \E now \in NowValues :
                    LET r == SeqCreate(Abs, d.title, d.description, now) IN
                    d.task = r.task /\ Abs' = r.store
          [] d.op = "Get" ->
                LET r == SeqGet(Abs, d.id) IN
                d.task = r.task /\ d.ok = r.ok /\ Abs' = r.store
          [] d.op = "GetAll" ->
                \E r \in SeqGetAll(Abs) :
                    d.list = r.list /\ d.listNil = r.listNil /\ Abs' = r.store
          [] d.op = "Delete" ->
                LET r == SeqDelete(Abs, d.id) IN
                d.ok = r.ok /\ Abs' = r.store
    /\ \A c \in Moved :
        /\ c.pc \in LinPCs => Arrived = {}
        /\ Arrived = {} => c.pc \in LinPCs
    /\ \A d \in Arrived : Moved = {} => d.pc \notin LinPCs

C22_Linearizable == [][C22_LinearizationStep]_vars

\* A Get of task-1 that was called before the Create of task-1 had returned
\* holds the task: the two calls overlapped, and the Get took effect after the
\* Create.
C22_Witness ==
    \E c \in InFlight :
        /\ c.op = "Get" /\ c.pc = "g_ret" /\ c.ok
        /\ ~c.g_live /\ c.id = SprintfTaskID(1)
        /\ deleted = <<>> /\ delCalls[c.id] = 0
        /\ c.task.id = c.id

(* ========================= overlapping reads (C23) ==================== *)
\* C23: read operations do not exclude each other. A Get or GetAll that waits
\* in RLock while other Gets or GetAlls are inside their critical sections,
\* and no goroutine holds the mutex for writing, can take the read lock; the
\* mutex counts the readers inside, which may be more than one.
C23_ReadsOverlap ==
    /\ mu.r = NumAt(ReaderPCs)
    /\ \A c \in InFlight :
        /\ c.pc = "g_rlock" /\ mu.r >= 1 /\ mu.w = 0 => ENABLED GetRLock(c)
        /\ c.pc = "a_rlock" /\ mu.r >= 1 /\ mu.w = 0 => ENABLED GetAllRLock(c)

\* A Get and a GetAll are inside their critical sections at the same time,
\* and no Create or Delete is in progress.
C23_Witness ==
    /\ \E c, d \in InFlight :
        /\ c.op = "Get" /\ c.pc \in ReaderPCs
        /\ d.op = "GetAll" /\ d.pc \in ReaderPCs
    /\ NumAt(ReaderPCs) = 2
    /\ mu = [w |-> 0, r |-> 2]
    /\ \A e \in InFlight : e.op \notin {"Create", "Delete"}

\* Two Gets have read the map and hold the read lock at the same time.
C23_WitnessTwoGets ==
    /\ NumAt({"g_ret"}) = 2
    /\ mu = [w |-> 0, r |-> 2]
    /\ \A e \in InFlight : e.op = "Get"

====
